---- MODULE Spec2Model ----
(***************************************************************************)
(* Model of categorize_products.py: the keyword rule matcher, the subgroup *)
(* finder and the per-row classification cascade of classify_products.     *)
(*                                                                         *)
(* Text is a sequence of Unicode code points (Hebrew letters are           *)
(* 1488..1514, space is 32, "*" is 42); comments transliterate Hebrew      *)
(* text letter by letter into Latin letters.  A spreadsheet cell or an     *)
(* optional Python value is a record [kind, s]: None, a str with its text,  *)
(* or a number with the text str() gives for it.                           *)
(***************************************************************************)
EXTENDS Integers, Sequences, FiniteSets, TLC

VARIABLES taxonomy, rows, results, stats, new_categories, pc, call, ret

vars == <<taxonomy, rows, results, stats, new_categories, pc, call, ret>>

-----------------------------------------------------------------------------
(* Python values and str operations                                        *)

None == [kind |-> "none", s |-> <<>>]

Str(s) == [kind |-> "str", s |-> s]

\* a numeric cell; s is str() of the number
Num(s) == [kind |-> "num", s |-> s]

\* truth value of a cell: None, "" and the number 0 are falsy
Truthy(c) ==
    \/ c.kind = "str" /\ c.s # <<>>
    \/ c.kind = "num" /\ c.s # <<48>>

\* a number that (x or "") passes on: .strip() and .lower() raise on it
TruthyNum(c) == c.kind = "num" /\ Truthy(c)

\* x or y
OrElse(x, y) == IF Truthy(x) THEN x ELSE y

\* (x or ""), the text of a cell, empty when the cell is falsy
OrEmpty(x) == IF Truthy(x) THEN x.s ELSE <<>>

IsSpace(c) == c \in {9, 10, 11, 12, 13, 32}

LowerChar(c) == IF c \in 65..90 THEN c + 32 ELSE c

\* str.lower()
Lower(s) == [i \in 1..Len(s) |-> LowerChar(s[i])]

\* sub in s
Contains(sub, s) ==
    \E i \in 0..(Len(s) - Len(sub)) : SubSeq(s, i + 1, i + Len(sub)) = sub

RECURSIVE LStrip(_)
LStrip(s) == IF s # <<>> /\ IsSpace(Head(s)) THEN LStrip(Tail(s)) ELSE s

RECURSIVE RStrip(_)
RStrip(s) ==
    IF s # <<>> /\ IsSpace(s[Len(s)]) THEN RStrip(SubSeq(s, 1, Len(s) - 1))
    ELSE s

\* str.strip()
Strip(s) == RStrip(LStrip(s))

RECURSIVE SplitFrom(_, _, _, _)
SplitFrom(s, i, cur, acc) ==
    IF i > Len(s) THEN (IF cur = <<>> THEN acc ELSE Append(acc, cur))
    ELSE IF IsSpace(s[i])
         THEN SplitFrom(s, i + 1, <<>>,
                        IF cur = <<>> THEN acc ELSE Append(acc, cur))
         ELSE SplitFrom(s, i + 1, Append(cur, s[i]), acc)

\* str.split(): the whitespace-delimited words of s
Split(s) == SplitFrom(s, 1, <<>>, <<>>)

RECURSIVE Join(_, _)
\* sep.join(parts)
Join(sep, parts) ==
    IF parts = <<>> THEN <<>>
    ELSE IF Len(parts) = 1 THEN parts[1]
    ELSE parts[1] \o sep \o Join(sep, Tail(parts))

-----------------------------------------------------------------------------
(* Literals of the source                                                  *)

\* "pryT xdw": marks a placeholder item
SKIP_MARK == <<1508, 1512, 1497, 1496, 32, 1495, 1491, 1513>>

\* "pryT la qyym - ldylvg": subgroup given to a skipped item
SKIP_SUBGROUP == <<1508, 1512, 1497, 1496, 32, 1500, 1488, 32, 1511, 1497, 1497, 1501, 32, 45, 32, 1500, 1491, 1497, 1500, 1493, 1490>>

\* "*xdw*": marks a category that does not exist yet
NEW_MARK == <<42, 1495, 1491, 1513, 42>>

\* " *lbdyqh*": suffix of a subgroup picked by department only
REVIEW_SUFFIX == <<32, 42, 1500, 1489, 1491, 1497, 1511, 1492, 42>>

\* "la ydve": domain of an unknown item without one
UNKNOWN_DOMAIN == <<1500, 1488, 32, 1497, 1491, 1493, 1506>>

\* "lbdyqh": dept and group of an unknown item without them
NEEDS_REVIEW == <<1500, 1489, 1491, 1497, 1511, 1492>>

\* "lbdyqh ydnyt": subgroup of an unknown item
MANUAL_REVIEW == <<1500, 1489, 1491, 1497, 1511, 1492, 32, 1497, 1491, 1504, 1497, 1514>>

\* a word of a subgroup name counts when it is longer than this
MinWordLen == 2

-----------------------------------------------------------------------------
(* The keyword rules, in table order                                       *)

RULES == <<
    \* rule 1 (line 81): mgylt astr | mgylvt astr -> NF / xgym / pvrym / mgylvt astr
    [keywords |-> << <<1502, 1490, 1497, 1500, 1514, 32, 1488, 1505, 1514, 1512>>,
                     <<1502, 1490, 1497, 1500, 1493, 1514, 32, 1488, 1505, 1514, 1512>> >>,
     category |-> << <<78, 70>>,
                     <<1495, 1490, 1497, 1501>>,
                     <<1508, 1493, 1512, 1497, 1501>>,
                     <<1502, 1490, 1497, 1500, 1493, 1514, 32, 1488, 1505, 1514, 1512>> >>],
    \* rule 2 (line 83): txpvwt | mskh -> NF / xgym / pvrym / txpvwvt vabyzrym
    [keywords |-> << <<1514, 1495, 1508, 1493, 1513, 1514>>,
                     <<1502, 1505, 1499, 1492>> >>,
     category |-> << <<78, 70>>,
                     <<1495, 1490, 1497, 1501>>,
                     <<1508, 1493, 1512, 1497, 1501>>,
                     <<1514, 1495, 1508, 1493, 1513, 1493, 1514, 32, 1493, 1488, 1489, 1497, 1494, 1512, 1497, 1501>> >>],
    \* rule 3 (line 85): mwlvx mnvt | wqyt pvrym | qvpst pvrym -> NF / xgym / pvrym / abyzrym lmwlvxy mnvt
    [keywords |-> << <<1502, 1513, 1500, 1493, 1495, 32, 1502, 1504, 1493, 1514>>,
                     <<1513, 1511, 1497, 1514, 32, 1508, 1493, 1512, 1497, 1501>>,
                     <<1511, 1493, 1508, 1505, 1514, 32, 1508, 1493, 1512, 1497, 1501>> >>,
     category |-> << <<78, 70>>,
                     <<1495, 1490, 1497, 1501>>,
                     <<1508, 1493, 1512, 1497, 1501>>,
                     <<1488, 1489, 1497, 1494, 1512, 1497, 1501, 32, 1500, 1502, 1513, 1500, 1493, 1495, 1497, 32, 1502, 1504, 1493, 1514>> >>],
    \* rule 4 (line 87): pvrym -> NF / xgym / pvrym / abyzrym lmwlvxy mnvt
    [keywords |-> << <<1508, 1493, 1512, 1497, 1501>> >>,
     category |-> << <<78, 70>>,
                     <<1495, 1490, 1497, 1501>>,
                     <<1508, 1493, 1512, 1497, 1501>>,
                     <<1488, 1489, 1497, 1494, 1512, 1497, 1501, 32, 1500, 1502, 1513, 1500, 1493, 1495, 1497, 32, 1502, 1504, 1493, 1514>> >>],
    \* rule 5 (line 89): sbybvn | xnvkyh | xnvkh -> NF / xgym / xnvkh / sbybvnym
    [keywords |-> << <<1505, 1489, 1497, 1489, 1493, 1503>>,
                     <<1495, 1504, 1493, 1499, 1497, 1492>>,
                     <<1495, 1504, 1493, 1499, 1492>> >>,
     category |-> << <<78, 70>>,
                     <<1495, 1490, 1497, 1501>>,
                     <<1495, 1504, 1493, 1499, 1492>>,
                     <<1505, 1489, 1497, 1489, 1493, 1504, 1497, 1501>> >>],
    \* rule 6 (line 91): wqyt xg | wqyvt xg -> NF / xgym / xgym klly / wqyvt xg
    [keywords |-> << <<1513, 1511, 1497, 1514, 32, 1495, 1490>>,
                     <<1513, 1511, 1497, 1493, 1514, 32, 1495, 1490>> >>,
     category |-> << <<78, 70>>,
                     <<1495, 1490, 1497, 1501>>,
                     <<1495, 1490, 1497, 1501, 32, 1499, 1500, 1500, 1497>>,
                     <<1513, 1511, 1497, 1493, 1514, 32, 1495, 1490>> >>],
    \* rule 7 (line 93): mdbqvt lpsx | psx -> NF / xgym / xgym klly / wqyvt xg
    [keywords |-> << <<1502, 1491, 1489, 1511, 1493, 1514, 32, 1500, 1508, 1505, 1495>>,
                     <<1508, 1505, 1495>> >>,
     category |-> << <<78, 70>>,
                     <<1495, 1490, 1497, 1501>>,
                     <<1495, 1490, 1497, 1501, 32, 1499, 1500, 1500, 1497>>,
                     <<1513, 1511, 1497, 1493, 1514, 32, 1495, 1490>> >>],
    \* rule 8 (line 97): cycyt | Tlyt | ptyl | ptylym -> NF / yvdayqh *xdw* / cycyt vTlyt *xdw* / ptylym vcycyt *xdw*
    [keywords |-> << <<1510, 1497, 1510, 1497, 1514>>,
                     <<1496, 1500, 1497, 1514>>,
                     <<1508, 1514, 1497, 1500>>,
                     <<1508, 1514, 1497, 1500, 1497, 1501>> >>,
     category |-> << <<78, 70>>,
                     <<1497, 1493, 1491, 1488, 1497, 1511, 1492, 32, 42, 1495, 1491, 1513, 42>>,
                     <<1510, 1497, 1510, 1497, 1514, 32, 1493, 1496, 1500, 1497, 1514, 32, 42, 1495, 1491, 1513, 42>>,
                     <<1508, 1514, 1497, 1500, 1497, 1501, 32, 1493, 1510, 1497, 1510, 1497, 1514, 32, 42, 1495, 1491, 1513, 42>> >>],
    \* rule 9 (line 99): mzvzh | tpylyn | wvpr -> NF / yvdayqh *xdw* / yvdayqh *xdw* / yvdayqh *xdw*
    [keywords |-> << <<1502, 1494, 1493, 1494, 1492>>,
                     <<1514, 1508, 1497, 1500, 1497, 1503>>,
                     <<1513, 1493, 1508, 1512>> >>,
     category |-> << <<78, 70>>,
                     <<1497, 1493, 1491, 1488, 1497, 1511, 1492, 32, 42, 1495, 1491, 1513, 42>>,
                     <<1497, 1493, 1491, 1488, 1497, 1511, 1492, 32, 42, 1495, 1491, 1513, 42>>,
                     <<1497, 1493, 1491, 1488, 1497, 1511, 1492, 32, 42, 1495, 1491, 1513, 42>> >>],
    \* rule 10 (line 103): xzrt -> pyrvt vyrqvt / yrqvt / wvrwyym / wvrw
    [keywords |-> << <<1495, 1494, 1512, 1514>> >>,
     category |-> << <<1508, 1497, 1512, 1493, 1514, 32, 1493, 1497, 1512, 1511, 1493, 1514>>,
                     <<1497, 1512, 1511, 1493, 1514>>,
                     <<1513, 1493, 1512, 1513, 1497, 1497, 1501>>,
                     <<1513, 1493, 1512, 1513>> >>],
    \* rule 11 (line 105): lvp -> pyrvt vyrqvt / yrqvt / yrqvt lbywvl / yrqvt lbywvl *xdw*
    [keywords |-> << <<1500, 1493, 1507>> >>,
     category |-> << <<1508, 1497, 1512, 1493, 1514, 32, 1493, 1497, 1512, 1511, 1493, 1514>>,
                     <<1497, 1512, 1511, 1493, 1514>>,
                     <<1497, 1512, 1511, 1493, 1514, 32, 1500, 1489, 1497, 1513, 1493, 1500>>,
                     <<1497, 1512, 1511, 1493, 1514, 32, 1500, 1489, 1497, 1513, 1493, 1500, 32, 42, 1495, 1491, 1513, 42>> >>],
    \* rule 12 (line 107): nene | kvsbrh | pTrvzylyh | wmyr | ewb -> pyrvt vyrqvt / yrqvt / yrqvt elym / pTrvzylyh kvsbrh nene wmyr
    [keywords |-> << <<1504, 1506, 1504, 1506>>,
                     <<1499, 1493, 1505, 1489, 1512, 1492>>,
                     <<1508, 1496, 1512, 1493, 1494, 1497, 1500, 1497, 1492>>,
                     <<1513, 1502, 1497, 1512>>,
                     <<1506, 1513, 1489>> >>,
     category |-> << <<1508, 1497, 1512, 1493, 1514, 32, 1493, 1497, 1512, 1511, 1493, 1514>>,
                     <<1497, 1512, 1511, 1493, 1514>>,
                     <<1497, 1512, 1511, 1493, 1514, 32, 1506, 1500, 1497, 1501>>,
                     <<1508, 1496, 1512, 1493, 1494, 1497, 1500, 1497, 1492, 32, 1499, 1493, 1505, 1489, 1512, 1492, 32, 1504, 1506, 1504, 1506, 32, 1513, 1502, 1497, 1512>> >>],
    \* rule 13 (line 111): bvTn | bvTnym -> pyrvt vyrqvt / pycvxym / bvTnym *xdw* / bvTnym *xdw*
    [keywords |-> << <<1489, 1493, 1496, 1503>>,
                     <<1489, 1493, 1496, 1504, 1497, 1501>> >>,
     category |-> << <<1508, 1497, 1512, 1493, 1514, 32, 1493, 1497, 1512, 1511, 1493, 1514>>,
                     <<1508, 1497, 1510, 1493, 1495, 1497, 1501>>,
                     <<1489, 1493, 1496, 1504, 1497, 1501, 32, 42, 1495, 1491, 1513, 42>>,
                     <<1489, 1493, 1496, 1504, 1497, 1501, 32, 42, 1495, 1491, 1513, 42>> >>],
    \* rule 14 (line 113): wqd | wqdym -> pyrvt vyrqvt / pycvxym / wqdym *xdw* / wqdym *xdw*
    [keywords |-> << <<1513, 1511, 1491>>,
                     <<1513, 1511, 1491, 1497, 1501>> >>,
     category |-> << <<1508, 1497, 1512, 1493, 1514, 32, 1493, 1497, 1512, 1511, 1493, 1514>>,
                     <<1508, 1497, 1510, 1493, 1495, 1497, 1501>>,
                     <<1513, 1511, 1491, 1497, 1501, 32, 42, 1495, 1491, 1513, 42>>,
                     <<1513, 1511, 1491, 1497, 1501, 32, 42, 1495, 1491, 1513, 42>> >>],
    \* rule 15 (line 115): pysTvq -> pyrvt vyrqvt / pycvxym / pysTvq *xdw* / pysTvq *xdw*
    [keywords |-> << <<1508, 1497, 1505, 1496, 1493, 1511>> >>,
     category |-> << <<1508, 1497, 1512, 1493, 1514, 32, 1493, 1497, 1512, 1511, 1493, 1514>>,
                     <<1508, 1497, 1510, 1493, 1495, 1497, 1501>>,
                     <<1508, 1497, 1505, 1496, 1493, 1511, 32, 42, 1495, 1491, 1513, 42>>,
                     <<1508, 1497, 1505, 1496, 1493, 1511, 32, 42, 1495, 1491, 1513, 42>> >>],
    \* rule 16 (line 117): qwyv -> pyrvt vyrqvt / pycvxym / qwyv *xdw* / qwyv *xdw*
    [keywords |-> << <<1511, 1513, 1497, 1493>> >>,
     category |-> << <<1508, 1497, 1512, 1493, 1514, 32, 1493, 1497, 1512, 1511, 1493, 1514>>,
                     <<1508, 1497, 1510, 1493, 1495, 1497, 1501>>,
                     <<1511, 1513, 1497, 1493, 32, 42, 1495, 1491, 1513, 42>>,
                     <<1511, 1513, 1497, 1493, 32, 42, 1495, 1491, 1513, 42>> >>],
    \* rule 17 (line 119): pqan -> pyrvt vyrqvt / pycvxym / pqan vmqdmyh *xdw* / pqan *xdw*
    [keywords |-> << <<1508, 1511, 1488, 1503>> >>,
     category |-> << <<1508, 1497, 1512, 1493, 1514, 32, 1493, 1497, 1512, 1511, 1493, 1514>>,
                     <<1508, 1497, 1510, 1493, 1495, 1497, 1501>>,
                     <<1508, 1511, 1488, 1503, 32, 1493, 1502, 1511, 1491, 1502, 1497, 1492, 32, 42, 1495, 1491, 1513, 42>>,
                     <<1508, 1511, 1488, 1503, 32, 42, 1495, 1491, 1513, 42>> >>],
    \* rule 18 (line 121): mqdmyh -> pyrvt vyrqvt / pycvxym / pqan vmqdmyh *xdw* / mqdmyh *xdw*
    [keywords |-> << <<1502, 1511, 1491, 1502, 1497, 1492>> >>,
     category |-> << <<1508, 1497, 1512, 1493, 1514, 32, 1493, 1497, 1512, 1511, 1493, 1514>>,
                     <<1508, 1497, 1510, 1493, 1495, 1497, 1501>>,
                     <<1508, 1511, 1488, 1503, 32, 1493, 1502, 1511, 1491, 1502, 1497, 1492, 32, 42, 1495, 1491, 1513, 42>>,
                     <<1502, 1511, 1491, 1502, 1497, 1492, 32, 42, 1495, 1491, 1513, 42>> >>],
    \* rule 19 (line 123): bvndvq | agvz brzyl | agvz -> pyrvt vyrqvt / pycvxym / agvzym *xdw* / agvzym *xdw*
    [keywords |-> << <<1489, 1493, 1504, 1491, 1493, 1511>>,
                     <<1488, 1490, 1493, 1494, 32, 1489, 1512, 1494, 1497, 1500>>,
                     <<1488, 1490, 1493, 1494>> >>,
     category |-> << <<1508, 1497, 1512, 1493, 1514, 32, 1493, 1497, 1512, 1511, 1493, 1514>>,
                     <<1508, 1497, 1510, 1493, 1495, 1497, 1501>>,
                     <<1488, 1490, 1493, 1494, 1497, 1501, 32, 42, 1495, 1491, 1513, 42>>,
                     <<1488, 1490, 1493, 1494, 1497, 1501, 32, 42, 1495, 1491, 1513, 42>> >>],
    \* rule 20 (line 125): greyny xmnyh | greyny abTyx | greyny dlet | greynym -> pyrvt vyrqvt / pycvxym / greynym *xdw* / greynym *xdw*
    [keywords |-> << <<1490, 1512, 1506, 1497, 1504, 1497, 32, 1495, 1502, 1504, 1497, 1492>>,
                     <<1490, 1512, 1506, 1497, 1504, 1497, 32, 1488, 1489, 1496, 1497, 1495>>,
                     <<1490, 1512, 1506, 1497, 1504, 1497, 32, 1491, 1500, 1506, 1514>>,
                     <<1490, 1512, 1506, 1497, 1504, 1497, 1501>> >>,
     category |-> << <<1508, 1497, 1512, 1493, 1514, 32, 1493, 1497, 1512, 1511, 1493, 1514>>,
                     <<1508, 1497, 1510, 1493, 1495, 1497, 1501>>,
                     <<1490, 1512, 1506, 1497, 1504, 1497, 1501, 32, 42, 1495, 1491, 1513, 42>>,
                     <<1490, 1512, 1506, 1497, 1504, 1497, 1501, 32, 42, 1495, 1491, 1513, 42>> >>],
    \* rule 21 (line 127): greynym dlet | greyny abTyx zryph -> pyrvt vyrqvt / pycvxym / greynym *xdw* / greynym *xdw*
    [keywords |-> << <<1490, 1512, 1506, 1497, 1504, 1497, 1501, 32, 1491, 1500, 1506, 1514>>,
                     <<1490, 1512, 1506, 1497, 1504, 1497, 32, 1488, 1489, 1496, 1497, 1495, 32, 1494, 1512, 1497, 1508, 1492>> >>,
     category |-> << <<1508, 1497, 1512, 1493, 1514, 32, 1493, 1497, 1512, 1511, 1493, 1514>>,
                     <<1508, 1497, 1510, 1493, 1495, 1497, 1501>>,
                     <<1490, 1512, 1506, 1497, 1504, 1497, 1501, 32, 42, 1495, 1491, 1513, 42>>,
                     <<1490, 1512, 1506, 1497, 1504, 1497, 1501, 32, 42, 1495, 1491, 1513, 42>> >>],
    \* rule 22 (line 129): xvmvs qlvy -> pyrvt vyrqvt / pycvxym / xvmvs vdgnym qlvyym *xdw* / xvmvs qlvy *xdw*
    [keywords |-> << <<1495, 1493, 1502, 1493, 1505, 32, 1511, 1500, 1493, 1497>> >>,
     category |-> << <<1508, 1497, 1512, 1493, 1514, 32, 1493, 1497, 1512, 1511, 1493, 1514>>,
                     <<1508, 1497, 1510, 1493, 1495, 1497, 1501>>,
                     <<1495, 1493, 1502, 1493, 1505, 32, 1493, 1491, 1490, 1504, 1497, 1501, 32, 1511, 1500, 1493, 1497, 1497, 1501, 32, 42, 1495, 1491, 1513, 42>>,
                     <<1495, 1493, 1502, 1493, 1505, 32, 1511, 1500, 1493, 1497, 32, 42, 1495, 1491, 1513, 42>> >>],
    \* rule 23 (line 131): tyrs mTvgn | tyrs -> pyrvt vyrqvt / pycvxym / xTypy pycvxym *xdw* / xTypy tyrs *xdw*
    [keywords |-> << <<1514, 1497, 1512, 1505, 32, 1502, 1496, 1493, 1490, 1503>>,
                     <<1514, 1497, 1512, 1505>> >>,
     category |-> << <<1508, 1497, 1512, 1493, 1514, 32, 1493, 1497, 1512, 1511, 1493, 1514>>,
                     <<1508, 1497, 1510, 1493, 1495, 1497, 1501>>,
                     <<1495, 1496, 1497, 1508, 1497, 32, 1508, 1497, 1510, 1493, 1495, 1497, 1501, 32, 42, 1495, 1491, 1513, 42>>,
                     <<1495, 1496, 1497, 1508, 1497, 32, 1514, 1497, 1512, 1505, 32, 42, 1495, 1491, 1513, 42>> >>],
    \* rule 24 (line 133): qbvqym | qrncvs | rbyvly gryl -> pyrvt vyrqvt / pycvxym / xTypy pycvxym *xdw* / xTypy pycvxym *xdw*
    [keywords |-> << <<1511, 1489, 1493, 1511, 1497, 1501>>,
                     <<1511, 1512, 1504, 1510, 1493, 1505>>,
                     <<1512, 1489, 1497, 1493, 1500, 1497, 32, 1490, 1512, 1497, 1500>> >>,
     category |-> << <<1508, 1497, 1512, 1493, 1514, 32, 1493, 1497, 1512, 1511, 1493, 1514>>,
                     <<1508, 1497, 1510, 1493, 1495, 1497, 1501>>,
                     <<1495, 1496, 1497, 1508, 1497, 32, 1508, 1497, 1510, 1493, 1495, 1497, 1501, 32, 42, 1495, 1491, 1513, 42>>,
                     <<1495, 1496, 1497, 1508, 1497, 32, 1508, 1497, 1510, 1493, 1495, 1497, 1501, 32, 42, 1495, 1491, 1513, 42>> >>],
    \* rule 25 (line 135): mevrb | marz pycvxym -> pyrvt vyrqvt / pycvxym / tervbvt pycvxym *xdw* / tervbvt pycvxym *xdw*
    [keywords |-> << <<1502, 1506, 1493, 1512, 1489>>,
                     <<1502, 1488, 1512, 1494, 32, 1508, 1497, 1510, 1493, 1495, 1497, 1501>> >>,
     category |-> << <<1508, 1497, 1512, 1493, 1514, 32, 1493, 1497, 1512, 1511, 1493, 1514>>,
                     <<1508, 1497, 1510, 1493, 1495, 1497, 1501>>,
                     <<1514, 1506, 1512, 1493, 1489, 1493, 1514, 32, 1508, 1497, 1510, 1493, 1495, 1497, 1501, 32, 42, 1495, 1491, 1513, 42>>,
                     <<1514, 1506, 1512, 1493, 1489, 1493, 1514, 32, 1508, 1497, 1510, 1493, 1495, 1497, 1501, 32, 42, 1495, 1491, 1513, 42>> >>],
    \* rule 26 (line 137): mmtq pry -> pyrvt vyrqvt / pycvxym / mmtqy pycvxym *xdw* / mmtqy pycvxym *xdw*
    [keywords |-> << <<1502, 1502, 1514, 1511, 32, 1508, 1512, 1497>> >>,
     category |-> << <<1508, 1497, 1512, 1493, 1514, 32, 1493, 1497, 1512, 1511, 1493, 1514>>,
                     <<1508, 1497, 1510, 1493, 1495, 1497, 1501>>,
                     <<1502, 1502, 1514, 1511, 1497, 32, 1508, 1497, 1510, 1493, 1495, 1497, 1501, 32, 42, 1495, 1491, 1513, 42>>,
                     <<1502, 1502, 1514, 1511, 1497, 32, 1508, 1497, 1510, 1493, 1495, 1497, 1501, 32, 42, 1495, 1491, 1513, 42>> >>],
    \* rule 27 (line 141): dg Try | pylh | dnys | lbrq | amnvn | qrpyvn | slmvn | Tvnh Try | aynTyas | bry | prydh | kvqyh | mvsr | bqlh | pgryh -> mcvnnym / dgym Tryym / dgym Tryym / dgym wlmym Tryym *xdw*
    [keywords |-> << <<1491, 1490, 32, 1496, 1512, 1497>>,
                     <<1508, 1497, 1500, 1492>>,
                     <<1491, 1504, 1497, 1505>>,
                     <<1500, 1489, 1512, 1511>>,
                     <<1488, 1502, 1504, 1493, 1503>>,
                     <<1511, 1512, 1508, 1497, 1493, 1503>>,
                     <<1505, 1500, 1502, 1493, 1503>>,
                     <<1496, 1493, 1504, 1492, 32, 1496, 1512, 1497>>,
                     <<1488, 1497, 1504, 1496, 1497, 1488, 1505>>,
                     <<1489, 1512, 1497>>,
                     <<1508, 1512, 1497, 1491, 1492>>,
                     <<1499, 1493, 1511, 1497, 1492>>,
                     <<1502, 1493, 1505, 1512>>,
                     <<1489, 1511, 1500, 1492>>,
                     <<1508, 1490, 1512, 1497, 1492>> >>,
     category |-> << <<1502, 1510, 1493, 1504, 1504, 1497, 1501>>,
                     <<1491, 1490, 1497, 1501, 32, 1496, 1512, 1497, 1497, 1501>>,
                     <<1491, 1490, 1497, 1501, 32, 1496, 1512, 1497, 1497, 1501>>,
                     <<1491, 1490, 1497, 1501, 32, 1513, 1500, 1502, 1497, 1501, 32, 1496, 1512, 1497, 1497, 1501, 32, 42, 1495, 1491, 1513, 42>> >>],
    \* rule 28 (line 144): dg arvz | pylh arvz | dg mnvqh -> mcvnnym / dgym Tryym / dgym Tryym arvzym / dgym arvzym *xdw*
    [keywords |-> << <<1491, 1490, 32, 1488, 1512, 1493, 1494>>,
                     <<1508, 1497, 1500, 1492, 32, 1488, 1512, 1493, 1494>>,
                     <<1491, 1490, 32, 1502, 1504, 1493, 1511, 1492>> >>,
     category |-> << <<1502, 1510, 1493, 1504, 1504, 1497, 1501>>,
                     <<1491, 1490, 1497, 1501, 32, 1496, 1512, 1497, 1497, 1501>>,
                     <<1491, 1490, 1497, 1501, 32, 1496, 1512, 1497, 1497, 1501, 32, 1488, 1512, 1493, 1494, 1497, 1501>>,
                     <<1491, 1490, 1497, 1501, 32, 1488, 1512, 1493, 1494, 1497, 1501, 32, 42, 1495, 1491, 1513, 42>> >>],
    \* rule 29 (line 148): anTryqvT | synTh | pylh bqr | asadv | wpvndrh | clevt bqr | ktp bqr | wyyTl | lwvn -> mcvnnym / qcbyh bqr Try / xlqy bwr Try / ntxy bqr *xdw*
    [keywords |-> << <<1488, 1504, 1496, 1512, 1497, 1511, 1493, 1496>>,
                     <<1505, 1497, 1504, 1496, 1492>>,
                     <<1508, 1497, 1500, 1492, 32, 1489, 1511, 1512>>,
                     <<1488, 1505, 1488, 1491, 1493>>,
                     <<1513, 1508, 1493, 1504, 1491, 1512, 1492>>,
                     <<1510, 1500, 1506, 1493, 1514, 32, 1489, 1511, 1512>>,
                     <<1499, 1514, 1507, 32, 1489, 1511, 1512>>,
                     <<1513, 1497, 1497, 1496, 1500>>,
                     <<1500, 1513, 1493, 1503>> >>,
     category |-> << <<1502, 1510, 1493, 1504, 1504, 1497, 1501>>,
                     <<1511, 1510, 1489, 1497, 1492, 32, 1489, 1511, 1512, 32, 1496, 1512, 1497>>,
                     <<1495, 1500, 1511, 1497, 32, 1489, 1513, 1512, 32, 1496, 1512, 1497>>,
                     <<1504, 1514, 1495, 1497, 32, 1489, 1511, 1512, 32, 42, 1495, 1491, 1513, 42>> >>],
    \* rule 30 (line 151): bwr Txvn | qcycvt -> mcvnnym / qcbyh bqr Try / bwr Try Txvn / bwr Txvn *xdw*
    [keywords |-> << <<1489, 1513, 1512, 32, 1496, 1495, 1493, 1503>>,
                     <<1511, 1510, 1497, 1510, 1493, 1514>> >>,
     category |-> << <<1502, 1510, 1493, 1504, 1504, 1497, 1501>>,
                     <<1511, 1510, 1489, 1497, 1492, 32, 1489, 1511, 1512, 32, 1496, 1512, 1497>>,
                     <<1489, 1513, 1512, 32, 1496, 1512, 1497, 32, 1496, 1495, 1493, 1503>>,
                     <<1489, 1513, 1512, 32, 1496, 1495, 1493, 1503, 32, 42, 1495, 1491, 1513, 42>> >>],
    \* rule 31 (line 153): bwr arvz -> mcvnnym / qcbyh bqr Try / bwr Try arvz / bwr arvz *xdw*
    [keywords |-> << <<1489, 1513, 1512, 32, 1488, 1512, 1493, 1494>> >>,
     category |-> << <<1502, 1510, 1493, 1504, 1504, 1497, 1501>>,
                     <<1511, 1510, 1489, 1497, 1492, 32, 1489, 1511, 1512, 32, 1496, 1512, 1497>>,
                     <<1489, 1513, 1512, 32, 1496, 1512, 1497, 32, 1488, 1512, 1493, 1494>>,
                     <<1489, 1513, 1512, 32, 1488, 1512, 1493, 1494, 32, 42, 1495, 1491, 1513, 42>> >>],
    \* rule 32 (line 155): evp wlm | prgyt wlmh -> mcvnnym / qcbyh evpvt Tryym / evp Try wlm / evp wlm *xdw*
    [keywords |-> << <<1506, 1493, 1507, 32, 1513, 1500, 1501>>,
                     <<1508, 1512, 1490, 1497, 1514, 32, 1513, 1500, 1502, 1492>> >>,
     category |-> << <<1502, 1510, 1493, 1504, 1504, 1497, 1501>>,
                     <<1511, 1510, 1489, 1497, 1492, 32, 1506, 1493, 1508, 1493, 1514, 32, 1496, 1512, 1497, 1497, 1501>>,
                     <<1506, 1493, 1507, 32, 1496, 1512, 1497, 32, 1513, 1500, 1501>>,
                     <<1506, 1493, 1507, 32, 1513, 1500, 1501, 32, 42, 1495, 1491, 1513, 42>> >>],
    \* rule 33 (line 157): xzh evp | wvq evp | knp evp | yrk evp | xlqy evp -> mcvnnym / qcbyh evpvt Tryym / xlqy evp Try / xlqy evp *xdw*
    [keywords |-> << <<1495, 1494, 1492, 32, 1506, 1493, 1507>>,
                     <<1513, 1493, 1511, 32, 1506, 1493, 1507>>,
                     <<1499, 1504, 1507, 32, 1506, 1493, 1507>>,
                     <<1497, 1512, 1498, 32, 1506, 1493, 1507>>,
                     <<1495, 1500, 1511, 1497, 32, 1506, 1493, 1507>> >>,
     category |-> << <<1502, 1510, 1493, 1504, 1504, 1497, 1501>>,
                     <<1511, 1510, 1489, 1497, 1492, 32, 1506, 1493, 1508, 1493, 1514, 32, 1496, 1512, 1497, 1497, 1501>>,
                     <<1495, 1500, 1511, 1497, 32, 1506, 1493, 1507, 32, 1496, 1512, 1497>>,
                     <<1495, 1500, 1511, 1497, 32, 1506, 1493, 1507, 32, 42, 1495, 1491, 1513, 42>> >>],
    \* rule 34 (line 159): hvdv | prgyt hvdv | xzh hvdv | wvq hvdv -> mcvnnym / qcbyh evpvt Tryym / hvdv Try / xlqy hvdv *xdw*
    [keywords |-> << <<1492, 1493, 1491, 1493>>,
                     <<1508, 1512, 1490, 1497, 1514, 32, 1492, 1493, 1491, 1493>>,
                     <<1495, 1494, 1492, 32, 1492, 1493, 1491, 1493>>,
                     <<1513, 1493, 1511, 32, 1492, 1493, 1491, 1493>> >>,
     category |-> << <<1502, 1510, 1493, 1504, 1504, 1497, 1501>>,
                     <<1511, 1510, 1489, 1497, 1492, 32, 1506, 1493, 1508, 1493, 1514, 32, 1496, 1512, 1497, 1497, 1501>>,
                     <<1492, 1493, 1491, 1493, 32, 1496, 1512, 1497>>,
                     <<1495, 1500, 1511, 1497, 32, 1492, 1493, 1491, 1493, 32, 42, 1495, 1491, 1513, 42>> >>],
    \* rule 35 (line 161): evp Txvn | hvdv Txvn -> mcvnnym / qcbyh evpvt Tryym / evp vhvdv Txvn / evp Txvn *xdw*
    [keywords |-> << <<1506, 1493, 1507, 32, 1496, 1495, 1493, 1503>>,
                     <<1492, 1493, 1491, 1493, 32, 1496, 1495, 1493, 1503>> >>,
     category |-> << <<1502, 1510, 1493, 1504, 1504, 1497, 1501>>,
                     <<1511, 1510, 1489, 1497, 1492, 32, 1506, 1493, 1508, 1493, 1514, 32, 1496, 1512, 1497, 1497, 1501>>,
                     <<1506, 1493, 1507, 32, 1493, 1492, 1493, 1491, 1493, 32, 1496, 1495, 1493, 1503>>,
                     <<1506, 1493, 1507, 32, 1496, 1495, 1493, 1503, 32, 42, 1495, 1491, 1513, 42>> >>],
    \* rule 36 (line 165): mceym | sdyn | cypyt -> NF / TqsTyl / kly myTh / mceym
    [keywords |-> << <<1502, 1510, 1506, 1497, 1501>>,
                     <<1505, 1491, 1497, 1503>>,
                     <<1510, 1497, 1508, 1497, 1514>> >>,
     category |-> << <<78, 70>>,
                     <<1496, 1511, 1505, 1496, 1497, 1500>>,
                     <<1499, 1500, 1497, 32, 1502, 1497, 1496, 1492>>,
                     <<1502, 1510, 1506, 1497, 1501>> >>],
    \* rule 37 (line 167): wmykh | wmykvt -> NF / TqsTyl / kly myTh / wmykvt qyc
    [keywords |-> << <<1513, 1502, 1497, 1499, 1492>>,
                     <<1513, 1502, 1497, 1499, 1493, 1514>> >>,
     category |-> << <<78, 70>>,
                     <<1496, 1511, 1505, 1496, 1497, 1500>>,
                     <<1499, 1500, 1497, 32, 1502, 1497, 1496, 1492>>,
                     <<1513, 1502, 1497, 1499, 1493, 1514, 32, 1511, 1497, 1509>> >>],
    \* rule 38 (line 169): kryt | kryvt -> NF / TqsTyl / kly myTh / kryvt
    [keywords |-> << <<1499, 1512, 1497, 1514>>,
                     <<1499, 1512, 1497, 1493, 1514>> >>,
     category |-> << <<78, 70>>,
                     <<1496, 1511, 1505, 1496, 1497, 1500>>,
                     <<1499, 1500, 1497, 32, 1502, 1497, 1496, 1492>>,
                     <<1499, 1512, 1497, 1493, 1514>> >>],
    \* rule 39 (line 171): mgbt | mgbvt -> NF / TqsTyl / mgbvt / mgbvt gvp
    [keywords |-> << <<1502, 1490, 1489, 1514>>,
                     <<1502, 1490, 1489, 1493, 1514>> >>,
     category |-> << <<78, 70>>,
                     <<1496, 1511, 1505, 1496, 1497, 1500>>,
                     <<1502, 1490, 1489, 1493, 1514>>,
                     <<1502, 1490, 1489, 1493, 1514, 32, 1490, 1493, 1507>> >>],
    \* rule 40 (line 173): mph | mpvt -> NF / TqsTyl / TqsTyl lbyt / mpvt
    [keywords |-> << <<1502, 1508, 1492>>,
                     <<1502, 1508, 1493, 1514>> >>,
     category |-> << <<78, 70>>,
                     <<1496, 1511, 1505, 1496, 1497, 1500>>,
                     <<1496, 1511, 1505, 1496, 1497, 1500, 32, 1500, 1489, 1497, 1514>>,
                     <<1502, 1508, 1493, 1514>> >>],
    \* rule 41 (line 175): wTyx -> NF / TqsTyl / TqsTyl lbyt / wTyxym
    [keywords |-> << <<1513, 1496, 1497, 1495>> >>,
     category |-> << <<78, 70>>,
                     <<1496, 1511, 1505, 1496, 1497, 1500>>,
                     <<1496, 1511, 1505, 1496, 1497, 1500, 32, 1500, 1489, 1497, 1514>>,
                     <<1513, 1496, 1497, 1495, 1497, 1501>> >>],
    \* rule 42 (line 177): grb | grbyym -> NF / TqsTyl / bygvd / grby gbrym
    [keywords |-> << <<1490, 1512, 1489>>,
                     <<1490, 1512, 1489, 1497, 1497, 1501>> >>,
     category |-> << <<78, 70>>,
                     <<1496, 1511, 1505, 1496, 1497, 1500>>,
                     <<1489, 1497, 1490, 1493, 1491>>,
                     <<1490, 1512, 1489, 1497, 32, 1490, 1489, 1512, 1497, 1501>> >>],
    \* rule 43 (line 179): ceyp -> NF / TqsTyl / abyzry xvrp / ceypym
    [keywords |-> << <<1510, 1506, 1497, 1507>> >>,
     category |-> << <<78, 70>>,
                     <<1496, 1511, 1505, 1496, 1497, 1500>>,
                     <<1488, 1489, 1497, 1494, 1512, 1497, 32, 1495, 1493, 1512, 1507>>,
                     <<1510, 1506, 1497, 1508, 1497, 1501>> >>],
    \* rule 44 (line 181): kppvt -> NF / TqsTyl / abyzry xvrp / kppvt
    [keywords |-> << <<1499, 1508, 1508, 1493, 1514>> >>,
     category |-> << <<78, 70>>,
                     <<1496, 1511, 1505, 1496, 1497, 1500>>,
                     <<1488, 1489, 1497, 1494, 1512, 1497, 32, 1495, 1493, 1512, 1507>>,
                     <<1499, 1508, 1508, 1493, 1514>> >>],
    \* rule 45 (line 183): mTryh -> NF / TqsTyl / abyzry xvrp / mTryvt
    [keywords |-> << <<1502, 1496, 1512, 1497, 1492>> >>,
     category |-> << <<78, 70>>,
                     <<1496, 1511, 1505, 1496, 1497, 1500>>,
                     <<1488, 1489, 1497, 1494, 1512, 1497, 32, 1495, 1493, 1512, 1507>>,
                     <<1502, 1496, 1512, 1497, 1493, 1514>> >>],
    \* rule 46 (line 187): kbl | tqe | wqe -> NF / mvcry xwml / abyzry xwml vtavrh / tqeym vkblym
    [keywords |-> << <<1499, 1489, 1500>>,
                     <<1514, 1511, 1506>>,
                     <<1513, 1511, 1506>> >>,
     category |-> << <<78, 70>>,
                     <<1502, 1493, 1510, 1512, 1497, 32, 1495, 1513, 1502, 1500>>,
                     <<1488, 1489, 1497, 1494, 1512, 1497, 32, 1495, 1513, 1502, 1500, 32, 1493, 1514, 1488, 1493, 1512, 1492>>,
                     <<1514, 1511, 1506, 1497, 1501, 32, 1493, 1499, 1489, 1500, 1497, 1501>> >>],
    \* rule 47 (line 189): nvrh | gvp tavrh -> NF / mvcry xwml / abyzry xwml vtavrh / nvrvt vgvpy tavrh
    [keywords |-> << <<1504, 1493, 1512, 1492>>,
                     <<1490, 1493, 1507, 32, 1514, 1488, 1493, 1512, 1492>> >>,
     category |-> << <<78, 70>>,
                     <<1502, 1493, 1510, 1512, 1497, 32, 1495, 1513, 1502, 1500>>,
                     <<1488, 1489, 1497, 1494, 1512, 1497, 32, 1495, 1513, 1502, 1500, 32, 1493, 1514, 1488, 1493, 1512, 1492>>,
                     <<1504, 1493, 1512, 1493, 1514, 32, 1493, 1490, 1493, 1508, 1497, 32, 1514, 1488, 1493, 1512, 1492>> >>],
    \* rule 48 (line 191): svllh | svllvt -> NF / mvcry xwml / alqTrvnyqh / svllvt
    [keywords |-> << <<1505, 1493, 1500, 1500, 1492>>,
                     <<1505, 1493, 1500, 1500, 1493, 1514>> >>,
     category |-> << <<78, 70>>,
                     <<1502, 1493, 1510, 1512, 1497, 32, 1495, 1513, 1502, 1500>>,
                     <<1488, 1500, 1511, 1496, 1512, 1493, 1504, 1497, 1511, 1492>>,
                     <<1505, 1493, 1500, 1500, 1493, 1514>> >>],
    \* rule 49 (line 193): avznyvt -> NF / mvcry xwml / alqTrvnyqh / avznyvt
    [keywords |-> << <<1488, 1493, 1494, 1504, 1497, 1493, 1514>> >>,
     category |-> << <<78, 70>>,
                     <<1502, 1493, 1510, 1512, 1497, 32, 1495, 1513, 1502, 1500>>,
                     <<1488, 1500, 1511, 1496, 1512, 1493, 1504, 1497, 1511, 1492>>,
                     <<1488, 1493, 1494, 1504, 1497, 1493, 1514>> >>],
    \* rule 50 (line 195): mTen | kbl Teynh -> NF / mvcry xwml / alqTrvnyqh / mTenym vkblym
    [keywords |-> << <<1502, 1496, 1506, 1503>>,
                     <<1499, 1489, 1500, 32, 1496, 1506, 1497, 1504, 1492>> >>,
     category |-> << <<78, 70>>,
                     <<1502, 1493, 1510, 1512, 1497, 32, 1495, 1513, 1502, 1500>>,
                     <<1488, 1500, 1511, 1496, 1512, 1493, 1504, 1497, 1511, 1492>>,
                     <<1502, 1496, 1506, 1504, 1497, 1501, 32, 1493, 1499, 1489, 1500, 1497, 1501>> >>],
    \* rule 51 (line 197): mbrwt wynyym | xvT dnTly | mgrd lwvn | qysm -> parm / hygyynt hph / mbrwvt wynyym / mbrwvt wynyym *xdw*
    [keywords |-> << <<1502, 1489, 1512, 1513, 1514, 32, 1513, 1497, 1504, 1497, 1497, 1501>>,
                     <<1495, 1493, 1496, 32, 1491, 1504, 1496, 1500, 1497>>,
                     <<1502, 1490, 1512, 1491, 32, 1500, 1513, 1493, 1503>>,
                     <<1511, 1497, 1505, 1501>> >>,
     category |-> << <<1508, 1488, 1512, 1501>>,
                     <<1492, 1497, 1490, 1497, 1497, 1504, 1514, 32, 1492, 1508, 1492>>,
                     <<1502, 1489, 1512, 1513, 1493, 1514, 32, 1513, 1497, 1504, 1497, 1497, 1501>>,
                     <<1502, 1489, 1512, 1513, 1493, 1514, 32, 1513, 1497, 1504, 1497, 1497, 1501, 32, 42, 1495, 1491, 1513, 42>> >>],
    \* rule 52 (line 199): px | pxym -> NF / kly byt / mvcrym lbyt / pxym
    [keywords |-> << <<1508, 1495>>,
                     <<1508, 1495, 1497, 1501>> >>,
     category |-> << <<78, 70>>,
                     <<1499, 1500, 1497, 32, 1489, 1497, 1514>>,
                     <<1502, 1493, 1510, 1512, 1497, 1501, 32, 1500, 1489, 1497, 1514>>,
                     <<1508, 1495, 1497, 1501>> >>],
    \* rule 53 (line 201): mecvr dlt -> NF / kly byt / mvcrym lbyt / mvcrym lbyt *xdw*
    [keywords |-> << <<1502, 1506, 1510, 1493, 1512, 32, 1491, 1500, 1514>> >>,
     category |-> << <<78, 70>>,
                     <<1499, 1500, 1497, 32, 1489, 1497, 1514>>,
                     <<1502, 1493, 1510, 1512, 1497, 1501, 32, 1500, 1489, 1497, 1514>>,
                     <<1502, 1493, 1510, 1512, 1497, 1501, 32, 1500, 1489, 1497, 1514, 32, 42, 1495, 1491, 1513, 42>> >>],
    \* rule 54 (line 203): prlTvr | brz | cynvr -> NF / kly byt / mvcrym lambTyh / brzym vxskmym
    [keywords |-> << <<1508, 1512, 1500, 1496, 1493, 1512>>,
                     <<1489, 1512, 1494>>,
                     <<1510, 1497, 1504, 1493, 1512>> >>,
     category |-> << <<78, 70>>,
                     <<1499, 1500, 1497, 32, 1489, 1497, 1514>>,
                     <<1502, 1493, 1510, 1512, 1497, 1501, 32, 1500, 1488, 1502, 1489, 1496, 1497, 1492>>,
                     <<1489, 1512, 1494, 1497, 1501, 32, 1493, 1495, 1505, 1499, 1502, 1497, 1501>> >>],
    \* rule 55 (line 205): blvn -> NF / pnay / abyzry msybh / blvnym
    [keywords |-> << <<1489, 1500, 1493, 1503>> >>,
     category |-> << <<78, 70>>,
                     <<1508, 1504, 1488, 1497>>,
                     <<1488, 1489, 1497, 1494, 1512, 1497, 32, 1502, 1505, 1497, 1489, 1492>>,
                     <<1489, 1500, 1493, 1504, 1497, 1501>> >>],
    \* rule 56 (line 207): pnqs | mxbrt -> NF / pnay / cyvd mwrdy / mxbrvt blvqym vmeTpvt
    [keywords |-> << <<1508, 1504, 1511, 1505>>,
                     <<1502, 1495, 1489, 1512, 1514>> >>,
     category |-> << <<78, 70>>,
                     <<1508, 1504, 1488, 1497>>,
                     <<1510, 1497, 1493, 1491, 32, 1502, 1513, 1512, 1491, 1497>>,
                     <<1502, 1495, 1489, 1512, 1493, 1514, 32, 1489, 1500, 1493, 1511, 1497, 1501, 32, 1493, 1502, 1506, 1496, 1508, 1493, 1514>> >>],
    \* rule 57 (line 209): mdbqvt -> NF / pnay / ycyrh / mdbqvt
    [keywords |-> << <<1502, 1491, 1489, 1511, 1493, 1514>> >>,
     category |-> << <<78, 70>>,
                     <<1508, 1504, 1488, 1497>>,
                     <<1497, 1510, 1497, 1512, 1492>>,
                     <<1502, 1491, 1489, 1511, 1493, 1514>> >>],
    \* rule 58 (line 211): cncnt | qvcc cypvrnyym -> NF / kly byt / kly axsvn / mvcry axsvn plsTyq
    [keywords |-> << <<1510, 1504, 1510, 1504, 1514>>,
                     <<1511, 1493, 1510, 1509, 32, 1510, 1497, 1508, 1493, 1512, 1504, 1497, 1497, 1501>> >>,
     category |-> << <<78, 70>>,
                     <<1499, 1500, 1497, 32, 1489, 1497, 1514>>,
                     <<1499, 1500, 1497, 32, 1488, 1495, 1505, 1493, 1503>>,
                     <<1502, 1493, 1510, 1512, 1497, 32, 1488, 1495, 1505, 1493, 1503, 32, 1508, 1500, 1505, 1496, 1497, 1511>> >>],
    \* rule 59 (line 215): bcl mTvgn | bcl pryk -> mzvn ybw / mvcrym lbywvl vapyh / tblynym / tblynym bwqyt
    [keywords |-> << <<1489, 1510, 1500, 32, 1502, 1496, 1493, 1490, 1503>>,
                     <<1489, 1510, 1500, 32, 1508, 1512, 1497, 1498>> >>,
     category |-> << <<1502, 1494, 1493, 1503, 32, 1497, 1489, 1513>>,
                     <<1502, 1493, 1510, 1512, 1497, 1501, 32, 1500, 1489, 1497, 1513, 1493, 1500, 32, 1493, 1488, 1508, 1497, 1492>>,
                     <<1514, 1489, 1500, 1497, 1504, 1497, 1501>>,
                     <<1514, 1489, 1500, 1497, 1504, 1497, 1501, 32, 1489, 1513, 1511, 1497, 1514>> >>],
    \* rule 60 (line 219): myc | nqTr -> mwqavt / mwqavt qlym / nqTrym vmycym / mycym *xdw*
    [keywords |-> << <<1502, 1497, 1509>>,
                     <<1504, 1511, 1496, 1512>> >>,
     category |-> << <<1502, 1513, 1511, 1488, 1493, 1514>>,
                     <<1502, 1513, 1511, 1488, 1493, 1514, 32, 1511, 1500, 1497, 1501>>,
                     <<1504, 1511, 1496, 1512, 1497, 1501, 32, 1493, 1502, 1497, 1510, 1497, 1501>>,
                     <<1502, 1497, 1510, 1497, 1501, 32, 42, 1495, 1491, 1513, 42>> >>],
    \* rule 61 (line 223): lvvndr | cmx | ecyc | prx -> NF / gynh *xdw* / cmxym *xdw* / cmxym vzreym *xdw*
    [keywords |-> << <<1500, 1493, 1493, 1504, 1491, 1512>>,
                     <<1510, 1502, 1495>>,
                     <<1506, 1510, 1497, 1509>>,
                     <<1508, 1512, 1495>> >>,
     category |-> << <<78, 70>>,
                     <<1490, 1497, 1504, 1492, 32, 42, 1495, 1491, 1513, 42>>,
                     <<1510, 1502, 1495, 1497, 1501, 32, 42, 1495, 1491, 1513, 42>>,
                     <<1510, 1502, 1495, 1497, 1501, 32, 1493, 1494, 1512, 1506, 1497, 1501, 32, 42, 1495, 1491, 1513, 42>> >>]
>>

RuleIds == 1..Len(RULES)

RECURSIVE AnyKeywordFrom(_, _, _)
\* inner loop of match_by_keyword: some keyword of rule r, from the k-th on,
\* occurs in name_lower
AnyKeywordFrom(name_lower, r, k) ==
    IF k > Len(RULES[r].keywords) THEN FALSE
    ELSE IF Contains(Lower(RULES[r].keywords[k]), name_lower) THEN TRUE
    ELSE AnyKeywordFrom(name_lower, r, k + 1)

\* variant of MatchFrom: the last matching rule wins, not the first
MatchFrom_last(name_lower, r) ==
    LET M == { q \in r..Len(RULES) : AnyKeywordFrom(name_lower, q, 1) }
    IN  IF M = {} THEN None
        ELSE [kind |-> "tuple",
              s |-> RULES[CHOOSE q \in M : \A p \in M : p <= q].category]

RECURSIVE MatchFrom(_, _)
\* outer loop of match_by_keyword, from rule r on
MatchFrom(name_lower, r) ==
    IF r > Len(RULES) THEN None
    ELSE IF AnyKeywordFrom(name_lower, r, 1)
         THEN [kind |-> "tuple", s |-> RULES[r].category]
         ELSE MatchFrom(name_lower, r + 1)

\* match_by_keyword(name): the category of a rule, or None
match_by_keyword(name) ==
    LET name_lower == IF Truthy(name) THEN Lower(name.s) ELSE <<>>
    IN  MatchFrom(name_lower, 1)

-----------------------------------------------------------------------------
(* build_lookup: the two tables, read at one key                           *)

\* by_dept_group[key], key = <<dept, group>> in lower case
by_dept_group(tax, key) ==
    SelectSeq(tax, LAMBDA t :
        LET dept == Strip(OrEmpty(t.dept_name))
            grp  == Strip(OrEmpty(t.grp_name))
            sub  == Strip(OrEmpty(t.sub_name))
        IN  /\ dept # <<>> /\ grp # <<>> /\ sub # <<>>
            /\ <<Lower(dept), Lower(grp)>> = key)

\* by_dept[key], key = dept in lower case
by_dept(tax, key) ==
    SelectSeq(tax, LAMBDA t :
        LET dept == Strip(OrEmpty(t.dept_name))
        IN  dept # <<>> /\ Lower(dept) = key)

-----------------------------------------------------------------------------
(* Subgroup finder                                                         *)

\* the taxonomy rows find_subgroup keeps: dept and group of the row, trimmed,
\* equal the arguments as given, and the row has a subgroup name
SubgroupMatches(dept_name, group_name, tax) ==
    SelectSeq(tax, LAMBDA t :
        /\ dept_name.kind = "str"
        /\ Strip(OrEmpty(t.dept_name)) = dept_name.s
        /\ group_name.kind = "str"
        /\ Strip(OrEmpty(t.grp_name)) = group_name.s
        /\ Truthy(t.sub_name))

\* any(w in name_lower for w in words if len(w) > 2)
AnyWordIn(sub_name, name_lower) ==
    LET words == Split(Lower(OrEmpty(sub_name)))
    IN  \E j \in 1..Len(words) :
            Len(words[j]) > MinWordLen /\ Contains(words[j], name_lower)

RECURSIVE FirstWordMatch(_, _, _)
\* the loop over several matches, from the m-th on; falls back to the first
FirstWordMatch(matches, name_lower, m) ==
    IF m > Len(matches) THEN matches[1].sub_name
    ELSE IF AnyWordIn(matches[m].sub_name, name_lower)
         THEN matches[m].sub_name
         ELSE FirstWordMatch(matches, name_lower, m + 1)

\* find_subgroup(dept_name, group_name, product_name, taxonomy)
find_subgroup(dept_name, group_name, product_name, tax) ==
    LET matches == SubgroupMatches(dept_name, group_name, tax)
    IN  IF matches = <<>> THEN None
        ELSE IF Len(matches) = 1 THEN matches[1].sub_name
        ELSE FirstWordMatch(matches, Lower(OrEmpty(product_name)), 1)

-----------------------------------------------------------------------------
(* classify_products: the cascade for one row                              *)

\* variant of IsPlaceholderItem: the mark counts only when dept and group
\* are not both given, as if the check came after the subgroup lookup
IsPlaceholderItem_late(row) ==
    /\ Truthy(row.item_name) /\ Contains(SKIP_MARK, row.item_name.s)
    /\ ~(Truthy(row.dept) /\ Truthy(row.group))

\* item_name and SKIP_MARK in str(item_name)
IsPlaceholderItem(row) ==
    Truthy(row.item_name) /\ Contains(SKIP_MARK, row.item_name.s)

\* the subgroup found for a row that has dept and group, else None
FoundSub(row, tax) ==
    IF Truthy(row.dept) /\ Truthy(row.group)
    THEN find_subgroup(row.dept, row.group, row.item_name, tax)
    ELSE None

\* variant of IsNew: only the department is searched for the mark
IsNew_dept(category) == Contains(NEW_MARK, category[2])

\* NEW_MARK in " ".join([new_dept, new_group, new_sub])
IsNew(category) ==
    Contains(NEW_MARK, Join(<<32>>, <<category[2], category[3], category[4]>>))

\* the taxonomy rows of the department-only case
DeptMatches(dept, tax) ==
    SelectSeq(tax, LAMBDA t :
        /\ dept.kind = "str"
        /\ Strip(OrEmpty(t.dept_name)) = dept.s
        /\ Truthy(t.sub_name))

\* the fields every result copies from its row
Base(row) ==
    [item_id |-> row.item_id, item_name |-> row.item_name,
     supplier_id |-> row.supplier_id, supplier_name |-> row.supplier_name]

Result(row, domain, dept, group, subgroup, status) ==
    [item_id |-> Base(row).item_id, item_name |-> Base(row).item_name,
     domain |-> domain, dept |-> dept, group |-> group, subgroup |-> subgroup,
     supplier_id |-> Base(row).supplier_id,
     supplier_name |-> Base(row).supplier_name,
     status |-> status]

SkippedResult(row) ==
    Result(row, row.domain, row.dept, row.group, Str(SKIP_SUBGROUP), "skipped")

AutoSubgroupResult(row, found_sub) ==
    Result(row, row.domain, row.dept, row.group, found_sub, "auto_subgroup")

KeywordResult(row, category) ==
    Result(row, Str(category[1]), Str(category[2]), Str(category[3]),
           Str(category[4]),
           IF IsNew(category) THEN "new_category" ELSE "auto_full")

\* variant of PartialAutoResult: the subgroup is copied without the suffix
PartialAutoResult_bare(row, t) ==
    Result(row, OrElse(row.domain, t.domain_name), row.dept, t.grp_name,
           t.sub_name, "partial_auto")

PartialAutoResult(row, t) ==
    Result(row, OrElse(row.domain, t.domain_name), row.dept, t.grp_name,
           Str(t.sub_name.s \o REVIEW_SUFFIX), "partial_auto")

\* variant of UnknownResult: one placeholder for domain, dept and group
UnknownResult_plain(row) ==
    Result(row, OrElse(row.domain, Str(NEEDS_REVIEW)),
           OrElse(row.dept, Str(NEEDS_REVIEW)),
           OrElse(row.group, Str(NEEDS_REVIEW)),
           Str(MANUAL_REVIEW), "unknown")

UnknownResult(row) ==
    Result(row, OrElse(row.domain, Str(UNKNOWN_DOMAIN)),
           OrElse(row.dept, Str(NEEDS_REVIEW)),
           OrElse(row.group, Str(NEEDS_REVIEW)),
           Str(MANUAL_REVIEW), "unknown")

\* variant of Emit: the new result goes to the front of the list
Emit_front(res, r) == <<r>> \o res

\* results.append(r)
Emit(res, r) == Append(res, r)

\* stats[key] += 1
Bump(st, key) == [st EXCEPT ![key] = @ + 1]

InitStats ==
    [auto_full |-> 0, auto_subgroup |-> 0, new_category |-> 0,
     skipped |-> 0, unknown |-> 0]

-----------------------------------------------------------------------------
(* Where the cascade raises instead of returning                           *)

\* the list comprehension of find_subgroup raises AttributeError: .strip() on
\* a numeric dept name, or on a numeric group name of a row whose dept matched
SubgroupMatchesRaises(dept_name, group_name, tax) ==
    \E j \in 1..Len(tax) :
        \/ TruthyNum(tax[j].dept_name)
        \/ /\ dept_name.kind = "str"
           /\ Strip(OrEmpty(tax[j].dept_name)) = dept_name.s
           /\ TruthyNum(tax[j].grp_name)

RECURSIVE FirstWordRaises(_, _, _)
\* the loop over several matches raises AttributeError: .lower() on a numeric
\* subgroup name, reached before an earlier match returned
FirstWordRaises(matches, name_lower, m) ==
    IF m > Len(matches) THEN FALSE
    ELSE IF matches[m].sub_name.kind = "num" THEN TRUE
    ELSE IF AnyWordIn(matches[m].sub_name, name_lower) THEN FALSE
    ELSE FirstWordRaises(matches, name_lower, m + 1)

\* find_subgroup raises
find_subgroup_raises(dept_name, group_name, product_name, tax) ==
    IF SubgroupMatchesRaises(dept_name, group_name, tax) THEN TRUE
    ELSE LET matches == SubgroupMatches(dept_name, group_name, tax)
         IN  /\ Len(matches) > 1
             /\ \/ TruthyNum(product_name)
                \/ FirstWordRaises(matches, Lower(OrEmpty(product_name)), 1)

\* match_by_keyword raises AttributeError: name.lower() on a number
match_by_keyword_raises(name) == TruthyNum(name)

\* the list comprehension of the department-only case raises AttributeError
DeptMatchesRaises(dept, tax) ==
    \E j \in 1..Len(tax) : TruthyNum(tax[j].dept_name)

\* the department-only case raises: the comprehension, or TypeError on
\* number + REVIEW_SUFFIX
PartialAutoRaises(row, tax) ==
    IF DeptMatchesRaises(row.dept, tax) THEN TRUE
    ELSE LET dept_matches == DeptMatches(row.dept, tax)
         IN  dept_matches # <<>> /\ dept_matches[1].sub_name.kind = "num"

\* the loop body raises on row
RowRaises(row, tax) ==
    IF IsPlaceholderItem(row) THEN FALSE
    ELSE IF /\ Truthy(row.dept) /\ Truthy(row.group)
            /\ find_subgroup_raises(row.dept, row.group, row.item_name, tax)
         THEN TRUE
    ELSE IF Truthy(FoundSub(row, tax)) THEN FALSE
    ELSE IF match_by_keyword_raises(row.item_name) THEN TRUE
    ELSE IF match_by_keyword(row.item_name) # None THEN FALSE
    ELSE /\ Truthy(row.dept) /\ ~Truthy(row.group)
         /\ PartialAutoRaises(row, tax)

-----------------------------------------------------------------------------
(* Inputs                                                                  *)

\* rows read from the products sheet in one run
MaxRows == 2

Entry(domain_name, dept_name, grp_name, sub_name) ==
    [domain_name |-> domain_name, dept_name |-> dept_name,
     grp_name |-> grp_name, sub_name |-> sub_name]

Row(item_id, item_name, domain, dept, group) ==
    [item_id |-> item_id, item_name |-> item_name, domain |-> domain,
     dept |-> dept, group |-> group, subgroup |-> None,
     supplier_id |-> 900 + item_id, supplier_name |-> Str(<<83, 117, 112>>)]

T_Food == Str(<<70, 111, 111, 100>>)
T_Fruit == Str(<<70, 114, 117, 105, 116>>)
T_fruit == Str(<<102, 114, 117, 105, 116>>)
T_Apples == Str(<<65, 112, 112, 108, 101, 115>>)
T_apples == Str(<<97, 112, 112, 108, 101, 115, 32>>)
T_Pears == Str(<<80, 101, 97, 114, 115>>)
T_Bakery == Str(<<66, 97, 107, 101, 114, 121>>)
T_Loaves == Str(<<76, 111, 97, 118, 101, 115>>)
T_Dairy == Str(<<68, 97, 105, 114, 121>>)
T_Milk == Str(<<77, 105, 108, 107>>)
T_Hardware == Str(<<72, 97, 114, 100, 119, 97, 114, 101>>)
T_Empty == Str(<<>>)

\* "Organic Green Apples 1kg"
N_Green == Str(<<79, 114, 103, 97, 110, 105, 99, 32, 71, 114, 101, 101, 110, 32, 65, 112, 112, 108, 101, 115, 32, 49, 107, 103>>)
\* "Mixed Fruit Box"
N_Mixed == Str(<<77, 105, 120, 101, 100, 32, 70, 114, 117, 105, 116, 32, 66, 111, 120>>)
\* "pryT xdw 12"
N_Skip == Str(<<1508, 1512, 1497, 1496, 32, 1495, 1491, 1513, 32, 49, 50>>)
\* "pvrym pryT xdw": placeholder mark and a keyword of rule 4
N_SkipPurim == Str(<<1508, 1493, 1512, 1497, 1501, 32, 1508, 1512, 1497, 1496, 32, 1495, 1491, 1513>>)
\* "wqd Tbey": rule 14
N_Almond == Str(<<1513, 1511, 1491, 32, 1496, 1489, 1506, 1497>>)
\* "wqdym qlvyym": rule 14
N_Almonds == Str(<<1513, 1511, 1491, 1497, 1501, 32, 1511, 1500, 1493, 1497, 1497, 1501>>)
\* "pqan": rule 17
N_Pecan == Str(<<1508, 1511, 1488, 1503>>)
\* "mskh lpvrym": rule 2 and rule 4
N_MaskPurim == Str(<<1502, 1505, 1499, 1492, 32, 1500, 1508, 1493, 1512, 1497, 1501>>)

\* two subgroups under Fruit/Apples, Bakery rows with and without subgroup
TaxFruit ==
    << Entry(T_Food, T_Fruit, T_Apples, Str(<<82, 101, 100, 32, 65, 112, 112, 108, 101, 115>>)),
       Entry(T_Food, T_Fruit, T_Apples, Str(<<71, 114, 101, 101, 110, 32, 65, 112, 112, 108, 101, 115>>)),
       Entry(T_Food, T_Bakery, T_Loaves, None),
       Entry(T_Food, T_Bakery, T_Loaves, Str(<<66, 114, 101, 97, 100>>)),
       Entry(T_Food, T_Bakery, Str(<<82, 111, 108, 108, 115>>), Str(<<66, 117, 110, 115>>)) >>

\* names with surrounding blanks, one subgroup under Dairy/Milk
TaxLoose ==
    << Entry(T_Food, Str(<<32, 68, 97, 105, 114, 121, 32>>), Str(<<77, 105, 108, 107, 32>>), Str(<<70, 114, 101, 115, 104, 32, 77, 105, 108, 107>>)),
       Entry(T_Food, None, None, Str(<<79, 114, 112, 104, 97, 110>>)),
       Entry(T_Food, T_Fruit, T_Apples, Str(<<82, 105, 112, 101, 32, 70, 114, 117, 105, 116>>)) >>

Taxonomies == {TaxFruit, TaxLoose}

Rows ==
    { Row(1, N_SkipPurim, T_Food, T_Fruit, T_Apples),
      Row(2, N_Skip, None, None, None),
      Row(3, N_Green, T_Food, T_Fruit, T_Apples),
      Row(4, N_Mixed, None, T_Fruit, T_Apples),
      Row(5, N_Mixed, T_Food, T_fruit, T_apples),
      Row(6, N_Mixed, None, T_Bakery, None),
      Row(7, N_Mixed, T_Food, T_Bakery, T_Empty),
      Row(8, N_Almond, None, T_Bakery, None),
      Row(9, N_Almonds, T_Food, None, None),
      Row(10, N_Pecan, T_Food, T_Fruit, T_Pears),
      Row(11, N_MaskPurim, None, None, None),
      Row(12, N_MaskPurim, T_Food, T_Fruit, T_Apples),
      Row(13, N_Mixed, None, None, None),
      Row(14, N_Mixed, T_Food, None, None),
      Row(15, None, None, None, None),
      Row(16, N_Mixed, None, T_Hardware, None),
      Row(17, N_Green, T_Food, T_Dairy, T_Milk),
      Row(18, T_Empty, T_Empty, T_Empty, T_Empty) }

-----------------------------------------------------------------------------
(* classify_products as a state machine: one step per row of the sheet     *)

NoCall == [fn |-> "classify_products"]

Init ==
    /\ taxonomy \in Taxonomies
    /\ rows = <<>>
    /\ results = <<>>
    /\ stats = InitStats
    /\ new_categories = {}
    /\ pc = "loop"
    /\ call = NoCall
    /\ ret = None

\* the iterator yields row
Read(row) ==
    /\ pc = "loop"
    /\ Len(rows) < MaxRows
    /\ rows' = Append(rows, row)
    /\ UNCHANGED <<taxonomy, pc, call, ret>>

SkipRow(row) ==
    /\ Read(row)
    /\ IsPlaceholderItem(row)
    /\ stats' = Bump(stats, "skipped")
    /\ results' = Emit(results, SkippedResult(row))
    /\ UNCHANGED new_categories

AutoSubgroupRow(row) ==
    /\ Read(row)
    /\ ~IsPlaceholderItem(row)
    /\ Truthy(FoundSub(row, taxonomy))
    /\ stats' = Bump(stats, "auto_subgroup")
    /\ results' = Emit(results, AutoSubgroupResult(row, FoundSub(row, taxonomy)))
    /\ UNCHANGED new_categories

KeywordRow(row) ==
    /\ Read(row)
    /\ ~IsPlaceholderItem(row)
    /\ ~Truthy(FoundSub(row, taxonomy))
    /\ LET kw_result == match_by_keyword(row.item_name)
       IN  /\ kw_result # None
           /\ IF IsNew(kw_result.s)
              THEN /\ new_categories' = new_categories \cup {kw_result.s}
                   /\ stats' = Bump(stats, "new_category")
              ELSE /\ stats' = Bump(stats, "auto_full")
                   /\ UNCHANGED new_categories
           /\ results' = Emit(results, KeywordResult(row, kw_result.s))

PartialAutoRow(row) ==
    /\ Read(row)
    /\ ~IsPlaceholderItem(row)
    /\ ~Truthy(FoundSub(row, taxonomy))
    /\ match_by_keyword(row.item_name) = None
    /\ Truthy(row.dept) /\ ~Truthy(row.group)
    /\ LET dept_matches == DeptMatches(row.dept, taxonomy)
       IN  /\ dept_matches # <<>>
           /\ stats' = Bump(stats, "auto_subgroup")
           /\ results' = Emit(results, PartialAutoResult(row, dept_matches[1]))
    /\ UNCHANGED new_categories

UnknownRow(row) ==
    /\ Read(row)
    /\ ~IsPlaceholderItem(row)
    /\ ~Truthy(FoundSub(row, taxonomy))
    /\ match_by_keyword(row.item_name) = None
    /\ ~(/\ Truthy(row.dept) /\ ~Truthy(row.group)
         /\ DeptMatches(row.dept, taxonomy) # <<>>)
    /\ stats' = Bump(stats, "unknown")
    /\ results' = Emit(results, UnknownResult(row))
    /\ UNCHANGED new_categories

\* the sheet is exhausted: return results, stats, new_categories
Return ==
    /\ pc = "loop"
    /\ pc' = "done"
    /\ UNCHANGED <<taxonomy, rows, results, stats, new_categories, call, ret>>

Next ==
    \/ \E row \in Rows : SkipRow(row)
    \/ \E row \in Rows : AutoSubgroupRow(row)
    \/ \E row \in Rows : KeywordRow(row)
    \/ \E row \in Rows : PartialAutoRow(row)
    \/ \E row \in Rows : UnknownRow(row)
    \/ Return

Spec == Init /\ [][Next]_vars

-----------------------------------------------------------------------------
(* classify_products on sheets with numeric cells                          *)

\* the number 12345
C_12345 == Num(<<49, 50, 51, 52, 53>>)
\* the number 0
C_Zero == Num(<<48>>)

\* a numeric subgroup under Bakery/Loaves, a numeric domain, a zero subgroup
TaxCodes ==
    << Entry(T_Food, T_Bakery, T_Loaves, Num(<<50, 48, 50, 52>>)),
       Entry(Num(<<55>>), T_Fruit, T_Apples, Str(<<82, 105, 112, 101, 32, 70, 114, 117, 105, 116>>)),
       Entry(T_Food, T_Dairy, None, C_Zero) >>

\* a numeric dept name
TaxNumDept ==
    << Entry(T_Food, T_Fruit, T_Apples, Str(<<82, 105, 112, 101, 32, 70, 114, 117, 105, 116>>)),
       Entry(T_Food, Num(<<49, 50>>), T_Apples, Str(<<82, 101, 100, 32, 65, 112, 112, 108, 101, 115>>)) >>

CellTaxonomies == {TaxFruit, TaxCodes, TaxNumDept}

CellRows ==
    { Row(1, N_SkipPurim, T_Food, T_Fruit, T_Apples),
      Row(3, N_Green, T_Food, T_Fruit, T_Apples),
      Row(9, N_Almonds, T_Food, None, None),
      Row(13, N_Mixed, None, None, None),
      Row(21, C_12345, None, None, None),
      Row(22, C_12345, T_Food, T_Fruit, T_Apples),
      Row(23, C_Zero, None, None, None),
      Row(24, N_Mixed, None, Num(<<53>>), Num(<<54>>)),
      Row(25, N_Mixed, None, T_Bakery, None),
      Row(26, N_Mixed, Num(<<51>>), T_Bakery, T_Loaves) }

InitCells ==
    /\ taxonomy \in CellTaxonomies
    /\ rows = <<>>
    /\ results = <<>>
    /\ stats = InitStats
    /\ new_categories = {}
    /\ pc = "loop"
    /\ call = NoCall
    /\ ret = None

\* the loop body raises on the row read: classify_products returns nothing
RaiseRow(row) ==
    /\ pc = "loop"
    /\ Len(rows) < MaxRows
    /\ RowRaises(row, taxonomy)
    /\ rows' = Append(rows, row)
    /\ pc' = "raised"
    /\ UNCHANGED <<taxonomy, results, stats, new_categories, call, ret>>

NextCells ==
    \/ \E row \in CellRows : ~RowRaises(row, taxonomy) /\ SkipRow(row)
    \/ \E row \in CellRows : ~RowRaises(row, taxonomy) /\ AutoSubgroupRow(row)
    \/ \E row \in CellRows : ~RowRaises(row, taxonomy) /\ KeywordRow(row)
    \/ \E row \in CellRows : ~RowRaises(row, taxonomy) /\ PartialAutoRow(row)
    \/ \E row \in CellRows : ~RowRaises(row, taxonomy) /\ UnknownRow(row)
    \/ \E row \in CellRows : RaiseRow(row)
    \/ Return

SpecCells == InitCells /\ [][NextCells]_vars

-----------------------------------------------------------------------------
(* match_by_keyword on its own: one call on a name                         *)

AllKeywords ==
    UNION { { RULES[r].keywords[k] : k \in 1..Len(RULES[r].keywords) } :
            r \in RuleIds }

\* words a product name is put together from: keywords of rules 2, 4, 14, 27,
\* 28, 34, 35 and words that are no keyword
Fragments ==
    { <<1502, 1505, 1499, 1492>>, <<1508, 1493, 1512, 1497, 1501>>, <<1513, 1511, 1491>>, <<1508, 1497, 1500, 1492>>,
      <<1508, 1497, 1500, 1492, 32, 1488, 1512, 1493, 1494>>, <<1492, 1493, 1491, 1493>>, <<1492, 1493, 1491, 1493, 32, 1496, 1495, 1493, 1503>>,
      <<70, 114, 117, 105, 116>>, <<66, 79, 88>> }

MatchNames ==
    { Str(kw) : kw \in AllKeywords }
    \cup { Str(a \o <<32>> \o b) : a \in Fragments, b \in Fragments }
    \cup { None, T_Empty, N_Mixed, N_Skip }

InitMatch ==
    /\ taxonomy = <<>>
    /\ rows = <<>>
    /\ results = <<>>
    /\ stats = InitStats
    /\ new_categories = {}
    /\ pc = "match"
    /\ call \in { [fn |-> "match_by_keyword", name |-> n] : n \in MatchNames }
    /\ ret = None

ApplyMatch ==
    /\ pc = "match"
    /\ ret' = match_by_keyword(call.name)
    /\ pc' = "matched"
    /\ UNCHANGED <<taxonomy, rows, results, stats, new_categories, call>>

NextMatch == ApplyMatch

SpecMatch == InitMatch /\ [][NextMatch]_vars

-----------------------------------------------------------------------------
(* find_subgroup on its own: one call on a taxonomy                        *)

FindTaxonomies == {TaxFruit, TaxLoose, <<>>}

FindDepts == {None, T_Fruit, T_fruit, T_Dairy, Str(<<32, 68, 97, 105, 114, 121, 32>>)}

FindGroups == {None, T_Apples, T_apples, T_Milk}

FindNames == {None, N_Green, N_Mixed}

InitFind ==
    /\ taxonomy \in FindTaxonomies
    /\ rows = <<>>
    /\ results = <<>>
    /\ stats = InitStats
    /\ new_categories = {}
    /\ pc = "find"
    /\ call \in { [fn |-> "find_subgroup", dept_name |-> d, group_name |-> g,
                   product_name |-> n] :
                  d \in FindDepts, g \in FindGroups, n \in FindNames }
    /\ ret = None

ApplyFind ==
    /\ pc = "find"
    /\ ret' = find_subgroup(call.dept_name, call.group_name,
                            call.product_name, taxonomy)
    /\ pc' = "found"
    /\ UNCHANGED <<taxonomy, rows, results, stats, new_categories, call>>

NextFind == ApplyFind

SpecFind == InitFind /\ [][NextFind]_vars

-----------------------------------------------------------------------------
(* Properties                                                              *)

Statuses ==
    {"skipped", "auto_full", "auto_subgroup", "partial_auto", "new_category",
     "unknown"}

Min(S) == CHOOSE x \in S : \A y \in S : x <= y

\* the name of the row contains the placeholder mark
HasSkipMark(row) ==
    row.item_name.kind = "str" /\ Contains(SKIP_MARK, row.item_name.s)

NameLower(row) == Lower(OrEmpty(row.item_name))

\* the rules with a keyword that occurs in name_lower
MatchingRules(name_lower) ==
    { r \in RuleIds :
        \E k \in 1..Len(RULES[r].keywords) :
            Contains(RULES[r].keywords[k], name_lower) }

KeywordIn(name_lower) == \E kw \in AllKeywords : Contains(kw, name_lower)

\* the resolved (domain, dept, group, subgroup) of a result of the keyword step
Tuple(res) == <<res.domain.s, res.dept.s, res.group.s, res.subgroup.s>>

HasNewMark(res) ==
    \/ Contains(NEW_MARK, res.dept.s)
    \/ Contains(NEW_MARK, res.group.s)
    \/ Contains(NEW_MARK, res.subgroup.s)

CountOf(status) ==
    Cardinality({ i \in 1..Len(results) : results[i].status = status })

\* the taxonomy rows, by position, that belong to dept and carry a subgroup
DeptEntries(dept) ==
    { j \in 1..Len(taxonomy) :
        /\ Strip(OrEmpty(taxonomy[j].dept_name)) = dept.s
        /\ Truthy(taxonomy[j].sub_name) }

\* C1: row preservation.  There are as many results as rows read, the i-th
\* result carries item_id, item_name, supplier_id and supplier_name of the
\* i-th row unchanged, and has exactly one of the six statuses.
C1_RowPreservation ==
    /\ Len(results) = Len(rows)
    /\ \A i \in 1..Len(results) :
        /\ results[i].item_id = rows[i].item_id
        /\ results[i].item_name = rows[i].item_name
        /\ results[i].supplier_id = rows[i].supplier_id
        /\ results[i].supplier_name = rows[i].supplier_name
        /\ results[i].status \in Statuses

\* classify_products has returned for two different rows with different verdicts
C1_Witness ==
    /\ pc = "done"
    /\ Len(rows) >= 2
    /\ rows[1].item_id # rows[2].item_id
    /\ results[1].status # results[2].status

\* C2: skip precedence.  A row whose name contains the placeholder mark gets
\* status skipped, domain, dept and group copied from the row and the fixed
\* skip subgroup, whatever its dept, group and the keywords in its name; and
\* no new category is recorded for it.
C2_SkipPrecedence ==
    /\ \A i \in 1..Len(results) :
        HasSkipMark(rows[i]) =>
            /\ results[i].status = "skipped"
            /\ results[i].domain = rows[i].domain
            /\ results[i].dept = rows[i].dept
            /\ results[i].group = rows[i].group
            /\ results[i].subgroup = Str(SKIP_SUBGROUP)
    /\ \A c \in new_categories :
        \E i \in 1..Len(results) :
            ~HasSkipMark(rows[i]) /\ Tuple(results[i]) = c

\* a skipped row whose dept and group resolve a subgroup in the taxonomy and
\* whose name also contains a keyword
C2_Witness ==
    \E i \in 1..Len(results) :
        /\ HasSkipMark(rows[i])
        /\ Truthy(rows[i].dept) /\ Truthy(rows[i].group)
        /\ Truthy(find_subgroup(rows[i].dept, rows[i].group,
                                rows[i].item_name, taxonomy))
        /\ KeywordIn(NameLower(rows[i]))
        /\ results[i].status = "skipped"

\* the verdict the unknown fallback gives to row
IsUnknownVerdict(res, row) ==
    /\ res.status = "unknown"
    /\ res.dept = Str(NEEDS_REVIEW)
    /\ res.group = Str(NEEDS_REVIEW)
    /\ res.domain = (IF Truthy(row.domain) THEN row.domain
                     ELSE Str(UNKNOWN_DOMAIN))
    /\ res.subgroup = Str(MANUAL_REVIEW)

\* C4 as stated: unknown fallback.  Every row with no dept, no group and a
\* name that contains no rule keyword gets status unknown, the "needs review"
\* dept and group, its own domain or the "unknown domain" placeholder, and
\* the "manual review" subgroup.
C4_UnknownFallback_Stated ==
    \A i \in 1..Len(results) :
        (/\ ~Truthy(rows[i].dept) /\ ~Truthy(rows[i].group)
         /\ ~KeywordIn(NameLower(rows[i])))
        => IsUnknownVerdict(results[i], rows[i])

\* C4 amended: the same for every such row whose name does not contain the
\* placeholder mark (a row with the mark is skipped before the fallback).
C4_UnknownFallback ==
    \A i \in 1..Len(results) :
        (/\ ~HasSkipMark(rows[i])
         /\ ~Truthy(rows[i].dept) /\ ~Truthy(rows[i].group)
         /\ ~KeywordIn(NameLower(rows[i])))
        => IsUnknownVerdict(results[i], rows[i])

\* an unknown verdict for a row without dept, group and domain, and one for a
\* row without dept and group that has a domain
C4_Witness ==
    /\ \E i \in 1..Len(results) :
        /\ ~Truthy(rows[i].dept) /\ ~Truthy(rows[i].group)
        /\ ~Truthy(rows[i].domain)
        /\ results[i].status = "unknown"
    /\ \E i \in 1..Len(results) :
        /\ ~Truthy(rows[i].dept) /\ ~Truthy(rows[i].group)
        /\ Truthy(rows[i].domain)
        /\ results[i].status = "unknown"

\* C5: department-only fallback.  A row without the placeholder mark, with a
\* dept, without a group and with no rule keyword in its name gets status
\* partial_auto whenever the taxonomy has a row for that dept with a
\* subgroup; the verdict is built from the first such taxonomy row: domain of
\* the input or else of the taxonomy row, dept of the input, group of the
\* taxonomy row, its subgroup with the review suffix.  A row with dept and
\* group never gets partial_auto.
C5_DeptOnlyFallback ==
    \A i \in 1..Len(results) :
        /\ (/\ ~HasSkipMark(rows[i])
            /\ Truthy(rows[i].dept) /\ ~Truthy(rows[i].group)
            /\ ~KeywordIn(NameLower(rows[i]))
            /\ DeptEntries(rows[i].dept) # {})
           => LET e == taxonomy[Min(DeptEntries(rows[i].dept))]
              IN  /\ results[i].status = "partial_auto"
                  /\ results[i].domain = (IF Truthy(rows[i].domain)
                                          THEN rows[i].domain
                                          ELSE e.domain_name)
                  /\ results[i].dept = rows[i].dept
                  /\ results[i].group = e.grp_name
                  /\ results[i].subgroup = Str(e.sub_name.s \o REVIEW_SUFFIX)
        /\ (Truthy(rows[i].dept) /\ Truthy(rows[i].group))
           => results[i].status # "partial_auto"

\* a partial_auto verdict for a row without domain, in a taxonomy where the
\* dept has several rows with a subgroup behind one without
C5_Witness ==
    \E i \in 1..Len(results) :
        /\ results[i].status = "partial_auto"
        /\ ~Truthy(rows[i].domain)
        /\ Cardinality(DeptEntries(rows[i].dept)) >= 2
        /\ Min(DeptEntries(rows[i].dept)) > 1

\* C7: new-category dedup.  The new-category set is exactly the set of
\* resolved tuples of the results with status new_category, and a result of
\* the keyword step, whose tuple is a rule's category, has status
\* new_category exactly when the mark is in its dept, group or subgroup.
C7_NewCategoryDedup ==
    /\ new_categories =
         { Tuple(results[i]) :
             i \in { j \in 1..Len(results) :
                       results[j].status = "new_category" } }
    /\ \A i \in 1..Len(results) :
        results[i].status \in {"auto_full", "new_category"} =>
            /\ \E r \in RuleIds : Tuple(results[i]) = RULES[r].category
            /\ (results[i].status = "new_category") <=> HasNewMark(results[i])

\* two different rows matched the same new-category rule: two results, one
\* entry in the set
C7_Witness ==
    /\ Len(results) >= 2
    /\ rows[1] # rows[2]
    /\ results[1].status = "new_category"
    /\ results[2].status = "new_category"
    /\ Cardinality(new_categories) = 1

\* C8: per-status counts.  For each of the six statuses the count kept in
\* stats (zero for a status stats has no counter for) is the number of
\* results with that status.
C8_PerStatusCounts ==
    \A s \in Statuses :
        (IF s \in DOMAIN stats THEN stats[s] ELSE 0) = CountOf(s)

\* C6: first rule wins.  match_by_keyword returns the category of the
\* earliest rule that has a keyword occurring in the lower-cased name, and
\* None exactly when no keyword of any rule occurs in it.
C6_FirstRuleWins ==
    pc = "matched" =>
        LET M == MatchingRules(Lower(OrEmpty(call.name)))
        IN  IF M = {} THEN ret = None
            ELSE ret = [kind |-> "tuple", s |-> RULES[Min(M)].category]

\* a name matched by rules with different categories got the earliest one's
C6_Witness ==
    /\ pc = "matched"
    /\ LET M == MatchingRules(Lower(OrEmpty(call.name)))
       IN  /\ \E r1 \in M, r2 \in M :
                RULES[r1].category # RULES[r2].category
           /\ ret.s = RULES[Min(M)].category

\* C10: specific before general.  A name that is exactly a keyword of a rule
\* gets that rule's category, and every other rule with a different category
\* and a keyword contained in that keyword comes later in the table.
C10_SpecificBeforeGeneral ==
    pc = "matched" =>
        \A r2 \in RuleIds : \A k2 \in 1..Len(RULES[r2].keywords) :
            call.name = Str(RULES[r2].keywords[k2]) =>
                /\ ret = [kind |-> "tuple", s |-> RULES[r2].category]
                /\ \A r1 \in RuleIds \ {r2} :
                    \A k1 \in 1..Len(RULES[r1].keywords) :
                        (/\ RULES[r1].category # RULES[r2].category
                         /\ Contains(RULES[r1].keywords[k1],
                                     RULES[r2].keywords[k2]))
                        => r2 < r1

\* C3: multi-candidate tie-break.  With "Red Apples" then "Green Apples"
\* under Fruit/Apples, the name "Organic Green Apples 1kg" resolves to
\* "Green Apples" and the name "Mixed Fruit Box" to the first candidate.
C3_TieBreak ==
    (/\ pc = "found"
     /\ taxonomy = TaxFruit
     /\ call.dept_name = T_Fruit /\ call.group_name = T_Apples)
    => /\ call.product_name = N_Green => ret = Str(<<71, 114, 101, 101, 110, 32, 65, 112, 112, 108, 101, 115>>)
       /\ call.product_name = N_Mixed => ret = Str(<<82, 101, 100, 32, 65, 112, 112, 108, 101, 115>>)

\* C9: case-insensitive, trimmed lookup.  The taxonomy rows find_subgroup
\* considers for a dept and group are those filed under the lower-cased,
\* trimmed dept and group, and the result is the one a call with the dept
\* and group exactly as in the taxonomy gets.
C9_CaseInsensitiveLookup ==
    (pc = "found" /\ Truthy(call.dept_name) /\ Truthy(call.group_name)) =>
        LET key == <<Lower(Strip(call.dept_name.s)),
                     Lower(Strip(call.group_name.s))>>
            cands == by_dept_group(taxonomy, key)
        IN  /\ SubgroupMatches(call.dept_name, call.group_name, taxonomy)
                 = cands
            /\ cands # <<>> =>
                 ret = find_subgroup(Str(Strip(cands[1].dept_name.s)),
                                     Str(Strip(cands[1].grp_name.s)),
                                     call.product_name, taxonomy)

\* C11: no failure path.  On rows and taxonomies whose cells are absent,
\* text or numbers, classify_products never raises: every row read has a
\* result with one of the six statuses.
C11_NoFailurePath ==
    /\ pc # "raised"
    /\ Len(results) = Len(rows)
    /\ \A i \in 1..Len(results) : results[i].status \in Statuses

====
